---- MODULE Spec2Model ----
(***************************************************************************)
(* Model of MoonCard's lunar event engine: the two provider adapters       *)
(* (pyMoon's adjustMoonsetForNight, metno's fetchMoonToday), and the       *)
(* useMoonToday evaluation of hooks/useLunar that reconciles them, the     *)
(* cycle position of MoonGraph and the weighted position of                *)
(* TwilightPhaseBar; and the glue around it: the two queries behind the    *)
(* card and the graph, getBrowserLocation, the location bootstrap of Page  *)
(* and the twilight bar's label as its data ages.                          *)
(*                                                                         *)
(* Time.  An Instant is an integer number of ticks (the resolution of the  *)
(* ISO strings the code exchanges).  A local calendar day has DayLen       *)
(* ticks.  An ISO-8601 string with offset is the record of its fields:     *)
(* local date d, local time-of-day t, offset o.  A timezone is a base      *)
(* offset with at most one transition (at, after) in the modelled window.  *)
(***************************************************************************)
EXTENDS Integers, Sequences, FiniteSets, TLC

DayLen == 4

Noon == DayLen \div 2

\* The LocalDate of `now` in the observer's timezone, as a day number.
Today == 2

(***************************************************************************)
(* Timestamps: string | undefined                                          *)
(***************************************************************************)
NoneTs == [k |-> "none", d |-> 0, t |-> 0, o |-> 0]

\* A non-empty string that Date cannot parse.
BadTs == [k |-> "bad", d |-> 0, t |-> 0, o |-> 0]

Iso(d, t, o) == [k |-> "iso", d |-> d, t |-> t, o |-> o]

\* new Date(iso).getTime() of a parseable string
InstantOf(s) == s.d * DayLen + s.t - s.o

\* parseIso(iso) !== null
Parses(s) == s.k = "iso"

\* a ?? b
Coalesce(a, b) == IF a # NoneTs THEN a ELSE b

(***************************************************************************)
(* Timezones                                                               *)
(***************************************************************************)
Zone(base, at, after) == [base |-> base, at |-> at, after |-> after]

Off(z, i) == IF i < z.at THEN z.base ELSE z.after

\* formatInTimeZone(new Date(i), tz, "yyyy-MM-dd'T'HH:mm:ssXXX")
FormatInTimeZone(i, z) ==
    LET o == Off(z, i)
        l == i + o
    IN  Iso(l \div DayLen, l % DayLen, o)

\* formatInTimeZone(.., tz, "yyyy-MM-dd")
LocalDateOf(i, z) == (i + Off(z, i)) \div DayLen

\* ECMAScript's UTC(t): a local time that is skipped or repeated at a
\* transition is read with the offset in force before the transition.
LocalToUTC(l, z) ==
    IF l - z.base < z.at THEN l - z.base
    ELSE IF l - z.after >= z.at THEN l - z.after
    ELSE l - z.base

\* d.setDate(d.getDate() + 1): one calendar day later in the zone the
\* Date object computes its local fields in (the host's).
SetDatePlusOne(i, z) == LocalToUTC(i + Off(z, i) + DayLen, z)

(***************************************************************************)
(* Provider responses: {rise?, set?, high?} or a failed query              *)
(***************************************************************************)
Events(r, s, h) == [ok |-> TRUE, rise |-> r, set |-> s, high |-> h]

Failed == [ok |-> FALSE, rise |-> NoneTs, set |-> NoneTs, high |-> NoneTs]

(***************************************************************************)
(* providers/pyMoon: adjustMoonsetForNight                                 *)
(***************************************************************************)
\* set <= rise on strings whose date parts are equal: the rest of the
\* string (time of day, then the offset text) is compared in text order.
StringLeq(a, b) ==
    \/ a.t < b.t
    \/ a.t = b.t /\ a.o <= b.o

adjustMoonsetForNight(ev) ==
    IF ~ev.ok THEN ev
    ELSE IF ev.rise = NoneTs \/ ev.set = NoneTs THEN ev
    ELSE IF ~Parses(ev.rise) \/ ~Parses(ev.set) THEN ev
    ELSE IF ev.rise.d = ev.set.d /\ StringLeq(ev.set, ev.rise)
         THEN [ev EXCEPT !.set = Iso(ev.set.d + 1, ev.set.t, ev.set.o)]
         ELSE ev

(***************************************************************************)
(* providers/metno: toISOInTZ and fetchMoonToday                           *)
(***************************************************************************)
\* Defined for undefined and for parseable strings; formatInTimeZone
\* throws on an Invalid Date, which fetchMoonToday does not catch.
toISOInTZ(raw, z) ==
    IF raw = NoneTs THEN NoneTs ELSE FormatInTimeZone(InstantOf(raw), z)

fetchMoonToday(ev, z, hostZ) ==
    IF ~ev.ok THEN Failed
    ELSE IF BadTs \in {ev.rise, ev.set, ev.high} THEN Failed
    ELSE LET riseISO == toISOInTZ(ev.rise, z)
             setISO == toISOInTZ(ev.set, z)
             adjustedSetISO ==
                IF /\ riseISO # NoneTs
                   /\ setISO # NoneTs
                   /\ InstantOf(setISO) <= InstantOf(riseISO)
                THEN FormatInTimeZone(SetDatePlusOne(InstantOf(setISO), hostZ), z)
                ELSE setISO
         IN  Events(riseISO, adjustedSetISO, toISOInTZ(ev.high, z))

\* What the hook receives from a source for one raw provider response.
Adapter(src, ev, z, hostZ) ==
    IF src = "internal" THEN adjustMoonsetForNight(ev)
    ELSE fetchMoonToday(ev, z, hostZ)

(***************************************************************************)
(* Bounded inputs                                                          *)
(***************************************************************************)
Sources == {"internal", "external"}

\* The instant at which the zones that have a transition change offset.
TransitionAt == (Today + 1) * DayLen

FixedZone == Zone(1, 0, 1)

SpringForward == Zone(1, TransitionAt, 2)

FallBack == Zone(2, TransitionAt, 1)

ObsZones == {FixedZone, SpringForward, FallBack}

HostZones == {FixedZone, SpringForward, FallBack}

Offsets == {1, 2}

IsoOn(days) == {Iso(d, t, o) : d \in days, t \in 0 .. (DayLen - 1), o \in Offsets}

(***************************************************************************)
(* hooks/useLunar: helpers of useMoonToday                                 *)
(***************************************************************************)
isPast(iso, now) == Parses(iso) /\ InstantOf(iso) <= now

\* The loop of pickLatestBeforeIso from candidate i on; best = NoneTs
\* stands for bestT = -Infinity.
RECURSIVE LatestLoop(_, _, _, _)
LatestLoop(candidates, i, best, now) ==
    IF i > Len(candidates) THEN best
    ELSE LET iso == candidates[i]
             take == /\ Parses(iso)
                     /\ InstantOf(iso) <= now
                     /\ (best = NoneTs \/ InstantOf(iso) > InstantOf(best))
         IN  LatestLoop(candidates, i + 1, IF take THEN iso ELSE best, now)

\* pickLatestBeforeIso without its `t > bestT` test: the first candidate at
\* or before now wins, whatever comes after it.
pickFirstBeforeIso(candidates, now) ==
    LET hits == {i \in 1 .. Len(candidates) :
                    Parses(candidates[i]) /\ InstantOf(candidates[i]) <= now}
    IN  IF hits = {} THEN NoneTs
        ELSE candidates[CHOOSE i \in hits : \A j \in hits : i <= j]

pickLatestBeforeIso(candidates, now) == LatestLoop(candidates, 1, NoneTs, now)

RECURSIVE EarliestLoop(_, _, _, _)
EarliestLoop(candidates, i, best, now) ==
    IF i > Len(candidates) THEN best
    ELSE LET iso == candidates[i]
             take == /\ Parses(iso)
                     /\ InstantOf(iso) >= now
                     /\ (best = NoneTs \/ InstantOf(iso) < InstantOf(best))
         IN  EarliestLoop(candidates, i + 1, IF take THEN iso ELSE best, now)

pickEarliestAfterIso(candidates, now) == EarliestLoop(candidates, 1, NoneTs, now)

\* candidates.find((v) => !!v)
FindTruthy(candidates) ==
    LET hits == {i \in 1 .. Len(candidates) : candidates[i] # NoneTs}
    IN  IF hits = {} THEN NoneTs
        ELSE candidates[CHOOSE i \in hits : \A j \in hits : i <= j]

\* new Date(riseT + (setT - riseT) / 2), formatted to whole ticks in tz.
approximateHighMoon(riseISO, setISO, z) ==
    IF riseISO = NoneTs \/ setISO = NoneTs THEN NoneTs
    ELSE IF ~Parses(riseISO) \/ ~Parses(setISO) THEN NoneTs
    ELSE FormatInTimeZone((InstantOf(riseISO) + InstantOf(setISO)) \div 2, z)

\* activeDate === tomorrowLocal
RollsOver(extToday, pyToday, now, moonIsUp) ==
    LET setForSwitch == Coalesce(extToday.set, pyToday.set)
        moonsetPassed == isPast(setForSwitch, now)
    IN  moonsetPassed /\ ~moonIsUp

\* The condition under which a branch awaits getPyNext / getExtNext.
NeedsNext(field, now) == field = NoneTs \/ isPast(field, now)

\* The candidate list after the optional push of the next day's field;
\* a rejected next-day query is caught and pushes nothing.
WithNext(field, nextResp, nextField, now) ==
    IF NeedsNext(field, now) /\ nextResp.ok THEN <<field, nextField>> ELSE <<field>>

RiseWhenUp(active, prev, now) ==
    Coalesce(pickLatestBeforeIso(<<active.rise, prev.rise>>, now),
             Coalesce(active.rise, prev.rise))

SetWhenUp(active, nextResp, now) ==
    LET candidates == WithNext(active.set, nextResp, nextResp.set, now)
    IN  Coalesce(pickEarliestAfterIso(candidates, now),
                 Coalesce(active.set, FindTruthy(candidates)))

RiseWhenDown(active, nextResp, now) ==
    LET candidates == WithNext(active.rise, nextResp, nextResp.rise, now)
    IN  Coalesce(pickEarliestAfterIso(candidates, now),
                 Coalesce(active.rise, FindTruthy(candidates)))

SetWhenDown(active, prev, now) ==
    Coalesce(pickLatestBeforeIso(<<prev.set, active.set>>, now),
             Coalesce(prev.set, active.set))

\* pyActive.highMoon / extActive.highMoon: pyMoon's MoonEvents carries the
\* culmination as high_moon, so the hook's read of highMoon is undefined.
HighMoonField(src, active) == IF src = "internal" THEN NoneTs ELSE active.high

\* A source's part of the returned object before anything is computed.
NoView == [rise |-> NoneTs, set |-> NoneTs, highMoon |-> NoneTs,
           prevRise |-> NoneTs, prevSet |-> NoneTs, askedNext |-> FALSE]

\* One source's part of the object useMoonToday returns.
SourceView(src, moonIsUp, now, active, prev, nextResp, z) ==
    [rise |-> IF moonIsUp THEN RiseWhenUp(active, prev, now)
              ELSE RiseWhenDown(active, nextResp, now),
     set |-> IF moonIsUp THEN SetWhenUp(active, nextResp, now)
             ELSE SetWhenDown(active, prev, now),
     highMoon |-> Coalesce(HighMoonField(src, active),
                           approximateHighMoon(active.rise, active.set, z)),
     prevRise |-> prev.rise,
     prevSet |-> prev.set,
     askedNext |-> IF moonIsUp THEN NeedsNext(active.set, now)
                   ELSE NeedsNext(active.rise, now)]

VARIABLES
    norm,   \* one run of a provider adapter's normalizer, applied twice
    sel,    \* one source's selection, as a function of its three responses
    ev,     \* one useMoonToday evaluation over both sources
    det,    \* one source's evaluation run on two hosts from the same responses
    cyc,    \* one render of MoonAltitudeGraph: the moon dot's cycle position
    tw,     \* one render of TwilightPhaseBar: the three marker positions
    rq,     \* the two lunar queries over their refreshes, and what is on screen
    geo,    \* one call of getBrowserLocation
    boot    \* the location bootstrap of the page

vars == <<norm, sel, ev, det, cyc, tw, rq, geo, boot>>

Idle == [pc |-> "idle"]

(***************************************************************************)
(* The normalizer of each adapter, applied to a raw (rise, set) pair and   *)
(* then to its own output.                                                 *)
(***************************************************************************)
NormInputs ==
    {Events(r, s, NoneTs) :
        r \in IsoOn({Today, Today + 1}) \cup {NoneTs},
        s \in IsoOn({Today - 1, Today, Today + 1}) \cup {NoneTs}}

InitNorm ==
    /\ rq = Idle
    /\ geo = Idle
    /\ boot = Idle
    /\ norm \in [pc : {"raw"}, src : Sources, tz : ObsZones, host : HostZones,
                 raw : NormInputs, once : {Failed}, twice : {Failed}]
    /\ sel = Idle
    /\ ev = Idle
    /\ det = Idle
    /\ cyc = Idle
    /\ tw = Idle

NormApply ==
    /\ norm.pc = "raw"
    /\ norm' = [norm EXCEPT !.pc = "once",
                            !.once = Adapter(norm.src, norm.raw, norm.tz, norm.host)]
    /\ UNCHANGED <<sel, ev, det, cyc, tw, rq, geo, boot>>

NormReapply ==
    /\ norm.pc = "once"
    /\ norm' = [norm EXCEPT !.pc = "twice",
                            !.twice = Adapter(norm.src, norm.once, norm.tz, norm.host)]
    /\ UNCHANGED <<sel, ev, det, cyc, tw, rq, geo, boot>>

NextNorm == NormApply \/ NormReapply

SpecNorm == InitNorm /\ [][NextNorm]_vars

\* The set as the adapter sees it before correcting it: the provider's
\* string (pyMoon), or that string re-expressed in the observer's zone (metno).
SetBefore == IF norm.src = "internal" THEN norm.raw.set ELSE toISOInTZ(norm.raw.set, norm.tz)

BothPresent == norm.raw.rise # NoneTs /\ norm.raw.set # NoneTs

\* C6: whenever rise and set are both present and set <= rise as instants,
\* the set the adapter returns is strictly later than the rise.
C6_SetAfterRise ==
    (/\ norm.pc # "raw"
     /\ BothPresent
     /\ InstantOf(norm.raw.set) <= InstantOf(norm.raw.rise))
        => InstantOf(norm.once.set) > InstantOf(norm.once.rise)

\* C7: whenever the adapter corrects a set, the corrected set is on the next
\* calendar day of the observer's zone at the same local time of day.
C7_OneObserverDay ==
    (/\ norm.pc # "raw"
     /\ BothPresent
     /\ norm.once.set # SetBefore)
        => /\ norm.once.set.d = SetBefore.d + 1
           /\ norm.once.set.t = SetBefore.t

\* C8: applying the adapter's normalizer to its own output changes nothing.
C8_Idempotent == norm.pc = "twice" => norm.twice = norm.once

(***************************************************************************)
(* One source's selection as a function of what its provider answers for   *)
(* the three LocalDates the evaluation may query.  The other source acts   *)
(* on this one only through its today's set (the rollover decision).       *)
(***************************************************************************)
\* Times of day at which the provider of this section reports events.
EventTods == {1, DayLen - 1}

RawTimes(d) == {NoneTs, BadTs} \cup {Iso(d, t, 1) : t \in EventTods}

HighsOn(d) == {NoneTs, Iso(d, Noon, 1)}

RawEvents(d, highs) == {Events(r, s, h) : r \in RawTimes(d), s \in RawTimes(d), h \in highs}

\* Every instant whose LocalDate in FixedZone is Today.
NowInstants == {Today * DayLen + t - 1 : t \in 0 .. (DayLen - 1)}

\* The other source's set for today: absent, already past, still to come.
OtherSets == {NoneTs, Iso(Today, 0, 1), Iso(Today + 1, 0, 1)}

SelAdapt(raw) == Adapter(sel.src, raw, FixedZone, FixedZone)

SelToday == SelAdapt(sel.rawToday)

SelRolled ==
    /\ SelToday.ok
    /\ IF sel.src = "external"
       THEN RollsOver(SelToday, [set |-> sel.otherSet], sel.now, sel.up)
       ELSE RollsOver([set |-> sel.otherSet], SelToday, sel.now, sel.up)

\* pyActive / extActive, pyPrev / extPrev and the lazily fetched next day
SelActive == IF SelRolled THEN SelAdapt(sel.rawOther) ELSE SelToday

SelPrev == IF SelRolled THEN SelToday ELSE SelAdapt(sel.rawOther)

SelNext == SelAdapt(sel.rawNext)

InitSel ==
    /\ norm = Idle
    /\ ev = Idle
    /\ det = Idle
    /\ cyc = Idle
    /\ tw = Idle
    /\ rq = Idle
    /\ geo = Idle
    /\ boot = Idle
    /\ \E src \in Sources, up \in BOOLEAN, n \in NowInstants, other \in OtherSets :
         \E rawToday \in RawEvents(Today, HighsOn(Today)) :
            LET today == Adapter(src, rawToday, FixedZone, FixedZone)
                rolled == /\ today.ok
                          /\ IF src = "external"
                             THEN RollsOver(today, [set |-> other], n, up)
                             ELSE RollsOver([set |-> other], today, n, up)
                otherDay == IF rolled THEN Today + 1 ELSE Today - 1
                nextDay == IF rolled THEN Today + 2 ELSE Today + 1
            IN  /\ rolled => rawToday.high = NoneTs
                /\ \E rawOther \in RawEvents(otherDay,
                                    IF rolled THEN HighsOn(otherDay) ELSE {NoneTs}),
                      rawNext \in RawEvents(nextDay, {NoneTs}) \cup {Failed} :
                      sel = [pc |-> "inputs", src |-> src, up |-> up, now |-> n,
                             otherSet |-> other, rawToday |-> rawToday,
                             rawOther |-> rawOther, rawNext |-> rawNext,
                             out |-> NoView]

\* The evaluation for this source: a rejected today / active / previous
\* query rejects the whole evaluation.
SelEvaluate ==
    /\ sel.pc = "inputs"
    /\ SelActive.ok /\ SelPrev.ok
    /\ sel' = [sel EXCEPT !.pc = "done",
                          !.out = SourceView(sel.src, sel.up, sel.now, SelActive,
                                             SelPrev, SelNext, FixedZone)]
    /\ UNCHANGED <<norm, ev, det, cyc, tw, rq, geo, boot>>

SelReject ==
    /\ sel.pc = "inputs"
    /\ ~(SelActive.ok /\ SelPrev.ok)
    /\ sel' = [sel EXCEPT !.pc = "rejected"]
    /\ UNCHANGED <<norm, ev, det, cyc, tw, rq, geo, boot>>

NextSel == SelEvaluate \/ SelReject

SpecSel == InitSel /\ [][NextSel]_vars

(***************************************************************************)
(* Claims about the selection                                              *)
(***************************************************************************)
Qualifying(pool, now, before) ==
    {s \in pool : Parses(s) /\ (IF before THEN InstantOf(s) <= now ELSE InstantOf(s) >= now)}

\* s is a latest (before) or an earliest (~before) instant of the set q
Extreme(s, q, before) ==
    /\ s \in q
    /\ \A x \in q : IF before THEN InstantOf(x) <= InstantOf(s)
                    ELSE InstantOf(x) >= InstantOf(s)

\* The displayed field is the extreme qualifying candidate of the pool, and
\* is no instant on the wrong side of now.
ShowsExtreme(shown, pool, now, before) ==
    LET q == Qualifying(pool, now, before)
    IN  /\ q # {} => \E s \in q : Extreme(s, q, before) /\ InstantOf(shown) = InstantOf(s)
        /\ Parses(shown) => shown \in Qualifying({shown}, now, before)

SelDone == sel.pc = "done"

\* The next day's response as far as the evaluation consults it.
ConsultedNext(field) ==
    IF NeedsNext(field, sel.now) /\ SelNext.ok THEN SelNext ELSE Failed

\* C1: when the moon is Above, the displayed rise is the latest rise <= now
\* among today's and the prior day's, and never a rise later than now.
C1_RiseWhenAbove ==
    (SelDone /\ sel.up)
        => ShowsExtreme(sel.out.rise, {SelActive.rise, SelPrev.rise}, sel.now, TRUE)

\* C2: when the moon is Above, the displayed set is the earliest set >= now
\* among today's set and, only when that is absent or <= now, the following
\* day's; the following day is consulted in no other case.
C2_SetWhenAbove ==
    (SelDone /\ sel.up)
        => /\ ShowsExtreme(sel.out.set,
                           {SelActive.set, ConsultedNext(SelActive.set).set},
                           sel.now, FALSE)
           /\ sel.out.askedNext
                => (SelActive.set = NoneTs \/ isPast(SelActive.set, sel.now))

\* Today's and tomorrow's responses of the source, whichever the active date.
SelTodayRise == SelToday.rise

SelTomorrowRise ==
    IF SelRolled THEN SelActive.rise ELSE ConsultedNext(SelActive.rise).rise

\* C3: when the moon is Below, the displayed rise is the earliest rise >= now
\* (today's, else the next day's) and the displayed set is the latest
\* set <= now among today's and the prior day's.
C3_WhenBelow ==
    (SelDone /\ ~sel.up)
        => /\ ShowsExtreme(sel.out.rise, {SelTodayRise, SelTomorrowRise}, sel.now, FALSE)
           /\ ~SelRolled
                => ShowsExtreme(sel.out.set, {SelActive.set, SelPrev.set}, sel.now, TRUE)

\* The candidates the evaluation searched for each displayed field.
SearchedRise ==
    IF sel.up THEN {SelActive.rise, SelPrev.rise}
    ELSE {SelActive.rise, ConsultedNext(SelActive.rise).rise}

SearchedSet ==
    IF sel.up THEN {SelActive.set, ConsultedNext(SelActive.set).set}
    ELSE {SelPrev.set, SelActive.set}

\* C4: a displayed field for which no searched candidate lies on the
\* required side of now is left unset.
C4_UnsetWhenNoCandidate ==
    SelDone
        => /\ Qualifying(SearchedRise, sel.now, sel.up) = {} => sel.out.rise = NoneTs
           /\ Qualifying(SearchedSet, sel.now, ~sel.up) = {} => sel.out.set = NoneTs

\* C10: the displayed culmination is the provider's own value for the active
\* date when it supplies one; otherwise the exact midpoint of the displayed
\* rise and set when both are displayed; otherwise absent.
C10_Culmination ==
    SelDone
        => LET own == SelActive.high
               shown == sel.out.highMoon
           IN  IF own # NoneTs
               THEN Parses(shown) /\ InstantOf(shown) = InstantOf(own)
               ELSE IF Parses(sel.out.rise) /\ Parses(sel.out.set)
               THEN /\ Parses(shown)
                    /\ 2 * InstantOf(shown)
                         = InstantOf(sel.out.rise) + InstantOf(sel.out.set)
               ELSE shown = NoneTs

(***************************************************************************)
(* One useMoonToday evaluation over both sources.  Each provider reports   *)
(* the same times of day on every LocalDate (a daily pattern); any query   *)
(* may be rejected.                                                        *)
(***************************************************************************)
NoTod == DayLen

\* Times of day of the daily patterns; the last tick of the day is left free
\* so that `now` can lie after the day's last event.
PatternTods == 1 .. (DayLen - 2)

TodsOrNone == PatternTods \cup {NoTod}

Patterns == [rise : TodsOrNone, set : TodsOrNone, high : {NoTod, Noon}]

AtTod(d, t, o) == IF t = NoTod THEN NoneTs ELSE Iso(d, t, o)

\* What the provider behind a source answers for LocalDate d.  MET Norway
\* reports in the fixed offset the adapter sends it (the observer's offset
\* at the time of the request); the ephemeris service reports each event
\* with the observer's offset at that event.
RawFor(src, pattern, d, z, now) ==
    LET offAt(t) == IF src = "external" THEN Off(z, now)
                    ELSE Off(z, LocalToUTC(d * DayLen + t, z))
    IN  Events(AtTod(d, pattern.rise, offAt(pattern.rise)),
               AtTod(d, pattern.set, offAt(pattern.set)),
               AtTod(d, pattern.high, offAt(pattern.high)))

\* shiftLocalDate anchored at local midnight instead of noon.
shiftLocalDateMidnight(base, z, deltaDays) ==
    LET baseMidnight == Iso(LocalDateOf(base, z), 0, Off(z, base))
    IN  LocalDateOf(InstantOf(baseMidnight) + deltaDays * DayLen, z)

\* Lines 59-65: the LocalDate deltaDays after that of base, computed from
\* noon of base's LocalDate written with base's offset.
shiftLocalDate(base, z, deltaDays) ==
    LET baseNoon == Iso(LocalDateOf(base, z), Noon, Off(z, base))
    IN  LocalDateOf(InstantOf(baseNoon) + deltaDays * DayLen, z)

Query(src, date) == [src |-> src, date |-> date]

\* Instants whose LocalDate in zone z is Today.
NowsIn(z) ==
    {i \in ((Today - 1) * DayLen) .. ((Today + 1) * DayLen) : LocalDateOf(i, z) = Today}

Init ==
    /\ norm = Idle
    /\ sel = Idle
    /\ det = Idle
    /\ cyc = Idle
    /\ tw = Idle
    /\ rq = Idle
    /\ geo = Idle
    /\ boot = Idle
    /\ \E z \in ObsZones, up \in BOOLEAN, pat \in [Sources -> Patterns] :
         \E n \in NowsIn(z) :
            ev = [pc |-> "start", now |-> n, tz |-> z, host |-> z, moonIsUp |-> up,
                  pat |-> pat, pending |-> {}, log |-> <<>>,
                  answered |-> {}, rejected |-> {},
                  todayLocal |-> LocalDateOf(n, z),
                  activeDate |-> LocalDateOf(n, z),
                  previousDate |-> LocalDateOf(n, z),
                  nextLocal |-> LocalDateOf(n, z),
                  pyToday |-> Failed, extToday |-> Failed,
                  pyOther |-> Failed, extOther |-> Failed,
                  pyNextCache |-> Failed, extNextCache |-> Failed,
                  internal |-> NoView, external |-> NoView]

\* The response a query settles with: the adapter's output, or a rejection.
Response(q, ok) ==
    IF ok THEN Adapter(q.src, RawFor(q.src, ev.pat[q.src], q.date, ev.tz, ev.now),
                       ev.tz, ev.host)
    ELSE Failed

\* const [pyToday, extToday] = await Promise.all([...]): both issued at once
Begin ==
    /\ ev.pc = "start"
    /\ ev' = [ev EXCEPT !.pc = "today",
                        !.pending = {Query(s, ev.todayLocal) : s \in Sources},
                        !.log = <<Query("internal", ev.todayLocal),
                                  Query("external", ev.todayLocal)>>]
    /\ UNCHANGED <<norm, sel, det, cyc, tw, rq, geo, boot>>

\* One of the jointly awaited queries settles; a rejection rejects the
\* Promise.all and with it the evaluation.
SettleJoint(q, ok) ==
    /\ ev.pc \in {"today", "secondary"}
    /\ q \in ev.pending
    /\ LET r == Response(q, ok)
           slot == IF ev.pc = "today"
                   THEN (IF q.src = "internal" THEN "pyToday" ELSE "extToday")
                   ELSE (IF q.src = "internal" THEN "pyOther" ELSE "extOther")
       IN  ev' = [ev EXCEPT ![slot] = r,
                            !.pending = @ \ {q},
                            !.answered = IF r.ok THEN @ \cup {q.src} ELSE @,
                            !.rejected = IF r.ok THEN @ ELSE @ \cup {q.src},
                            !.pc = IF r.ok THEN @ ELSE "rejected"]
    /\ UNCHANGED <<norm, sel, det, cyc, tw, rq, geo, boot>>

\* A query left over from a rejected evaluation settles unobserved.
SettleOrphan(q, ok) ==
    /\ ev.pc = "rejected"
    /\ q \in ev.pending
    /\ ev' = [ev EXCEPT !.pending = @ \ {q},
                        !.answered = IF Response(q, ok).ok THEN @ \cup {q.src} ELSE @,
                        !.rejected = IF Response(q, ok).ok THEN @ ELSE @ \cup {q.src}]
    /\ UNCHANGED <<norm, sel, det, cyc, tw, rq, geo, boot>>

\* Decide without the await of the first Promise.all: the second round of
\* queries starts while today's may still be in flight.
DecideEarly ==
    /\ ev.pc = "today"
    /\ LET rolls == RollsOver(ev.extToday, ev.pyToday, ev.now, ev.moonIsUp)
           tomorrowLocal == shiftLocalDate(ev.now, ev.tz, 1)
           yesterdayLocal == shiftLocalDate(ev.now, ev.tz, -1)
           activeDate == IF rolls THEN tomorrowLocal ELSE ev.todayLocal
           previousDate == IF activeDate = ev.todayLocal THEN yesterdayLocal
                           ELSE ev.todayLocal
           nextLocal == IF activeDate = ev.todayLocal THEN tomorrowLocal
                        ELSE shiftLocalDate(ev.now, ev.tz, 2)
           otherDate == IF activeDate = ev.todayLocal THEN previousDate ELSE activeDate
       IN  ev' = [ev EXCEPT !.pc = "secondary",
                            !.activeDate = activeDate,
                            !.previousDate = previousDate,
                            !.nextLocal = nextLocal,
                            !.pending = @ \cup {Query(s, otherDate) : s \in Sources},
                            !.log = @ \o <<Query("internal", otherDate),
                                           Query("external", otherDate)>>]
    /\ UNCHANGED <<norm, sel, det, cyc, tw, rq, geo, boot>>

\* Decide with a second round that queries the active and the previous date
\* afresh instead of reusing what it holds for todayLocal.
DecideRefetch ==
    /\ ev.pc = "today"
    /\ ev.pending = {}
    /\ LET rolls == RollsOver(ev.extToday, ev.pyToday, ev.now, ev.moonIsUp)
           tomorrowLocal == shiftLocalDate(ev.now, ev.tz, 1)
           yesterdayLocal == shiftLocalDate(ev.now, ev.tz, -1)
           activeDate == IF rolls THEN tomorrowLocal ELSE ev.todayLocal
           previousDate == IF activeDate = ev.todayLocal THEN yesterdayLocal
                           ELSE ev.todayLocal
           nextLocal == IF activeDate = ev.todayLocal THEN tomorrowLocal
                        ELSE shiftLocalDate(ev.now, ev.tz, 2)
       IN  ev' = [ev EXCEPT !.pc = "secondary",
                            !.activeDate = activeDate,
                            !.previousDate = previousDate,
                            !.nextLocal = nextLocal,
                            !.pending = {Query(s, d) : s \in Sources,
                                                       d \in {activeDate, previousDate}},
                            !.log = @ \o <<Query("internal", activeDate),
                                           Query("internal", previousDate),
                                           Query("external", activeDate),
                                           Query("external", previousDate)>>]
    /\ UNCHANGED <<norm, sel, det, cyc, tw, rq, geo, boot>>

\* Lines 199-236: the rollover decision and the second Promise.all, whose
\* entries for todayLocal are the results already held.
Decide ==
    /\ ev.pc = "today"
    /\ ev.pending = {}
    /\ LET rolls == RollsOver(ev.extToday, ev.pyToday, ev.now, ev.moonIsUp)
           tomorrowLocal == shiftLocalDate(ev.now, ev.tz, 1)
           yesterdayLocal == shiftLocalDate(ev.now, ev.tz, -1)
           activeDate == IF rolls THEN tomorrowLocal ELSE ev.todayLocal
           previousDate == IF activeDate = ev.todayLocal THEN yesterdayLocal
                           ELSE ev.todayLocal
           nextLocal == IF activeDate = ev.todayLocal THEN tomorrowLocal
                        ELSE shiftLocalDate(ev.now, ev.tz, 2)
           otherDate == IF activeDate = ev.todayLocal THEN previousDate ELSE activeDate
       IN  ev' = [ev EXCEPT !.pc = "secondary",
                            !.activeDate = activeDate,
                            !.previousDate = previousDate,
                            !.nextLocal = nextLocal,
                            !.pending = {Query(s, otherDate) : s \in Sources},
                            !.log = @ \o <<Query("internal", otherDate),
                                           Query("external", otherDate)>>]
    /\ UNCHANGED <<norm, sel, det, cyc, tw, rq, geo, boot>>

EvRolled == ev.activeDate # ev.todayLocal

pyActive == IF EvRolled THEN ev.pyOther ELSE ev.pyToday

pyPrev == IF EvRolled THEN ev.pyToday ELSE ev.pyOther

extActive == IF EvRolled THEN ev.extOther ELSE ev.extToday

extPrev == IF EvRolled THEN ev.extToday ELSE ev.extOther

\* The field whose state decides whether a source awaits its next day.
LazyField(active) == IF ev.moonIsUp THEN active.set ELSE active.rise

\* Second Promise.all resolved: the branch reaches the internal source's
\* `if (!pyActive.x || isPast(pyActive.x, now))`.
EnterSelection ==
    /\ ev.pc = "secondary"
    /\ ev.pending = {}
    /\ ev' = [ev EXCEPT !.pc = "lazyPy"]
    /\ UNCHANGED <<norm, sel, det, cyc, tw, rq, geo, boot>>

\* getPyNext() / getExtNext() when the branch asks for it, else skip.
LazyStep(src) ==
    /\ ev.pc = (IF src = "internal" THEN "lazyPy" ELSE "lazyExt")
    /\ LET active == IF src = "internal" THEN pyActive ELSE extActive
           after == IF src = "internal" THEN "lazyExt" ELSE "finish"
       IN  IF NeedsNext(LazyField(active), ev.now)
           THEN ev' = [ev EXCEPT !.pc = IF src = "internal" THEN "awaitPy" ELSE "awaitExt",
                                 !.pending = {Query(src, ev.nextLocal)},
                                 !.log = Append(@, Query(src, ev.nextLocal))]
           ELSE ev' = [ev EXCEPT !.pc = after]
    /\ UNCHANGED <<norm, sel, det, cyc, tw, rq, geo, boot>>

\* The awaited next-day query settles; its rejection is caught and ignored.
SettleLazy(q, ok) ==
    /\ ev.pc \in {"awaitPy", "awaitExt"}
    /\ q \in ev.pending
    /\ ev' = [ev EXCEPT ![IF ev.pc = "awaitPy" THEN "pyNextCache" ELSE "extNextCache"]
                            = Response(q, ok),
                        !.pending = {},
                        !.answered = IF Response(q, ok).ok THEN @ \cup {q.src} ELSE @,
                        !.rejected = IF Response(q, ok).ok THEN @ ELSE @ \cup {q.src},
                        !.pc = IF ev.pc = "awaitPy" THEN "lazyExt" ELSE "finish"]
    /\ UNCHANGED <<norm, sel, det, cyc, tw, rq, geo, boot>>

\* Lines 306-392: the returned object.
Finish ==
    /\ ev.pc = "finish"
    /\ ev' = [ev EXCEPT !.pc = "done",
                        !.internal = SourceView("internal", ev.moonIsUp, ev.now, pyActive,
                                                pyPrev, ev.pyNextCache, ev.tz),
                        !.external = SourceView("external", ev.moonIsUp, ev.now, extActive,
                                                extPrev, ev.extNextCache, ev.tz)]
    /\ UNCHANGED <<norm, sel, det, cyc, tw, rq, geo, boot>>

Queries == {Query(s, d) : s \in Sources, d \in (Today - 2) .. (Today + 3)}

Next ==
    \/ Begin
    \/ \E q \in Queries, ok \in BOOLEAN : SettleJoint(q, ok)
    \/ \E q \in Queries, ok \in BOOLEAN : SettleOrphan(q, ok)
    \/ Decide
    \/ EnterSelection
    \/ \E s \in Sources : LazyStep(s)
    \/ \E q \in Queries, ok \in BOOLEAN : SettleLazy(q, ok)
    \/ Finish

Spec == Init /\ [][Next]_vars

(***************************************************************************)
(* Claims about the evaluation                                             *)
(***************************************************************************)
ViewOf(src) == IF src = "internal" THEN ev.internal ELSE ev.external

\* The rise and set instants the provider behind src reports for date d.
PatternRise(src, d) == InstantOf(RawFor(src, ev.pat[src], d, ev.tz, ev.now).rise)

PatternSet(src, d) == InstantOf(RawFor(src, ev.pat[src], d, ev.tz, ev.now).set)

\* The provider behind src reports a rise R and a set S every day, R < S,
\* and has answered every query put to it.
RiseThenSetDaily(src) ==
    /\ ev.pat[src].rise # NoTod
    /\ ev.pat[src].set # NoTod
    /\ ev.pat[src].rise < ev.pat[src].set
    /\ src \notin ev.rejected

Shows(field, instant) == Parses(field) /\ InstantOf(field) = instant

AboveBetween(src) ==
    /\ ev.moonIsUp
    /\ PatternRise(src, Today) <= ev.now
    /\ ev.now <= PatternSet(src, Today)

BelowAfterSet(src) ==
    /\ ~ev.moonIsUp
    /\ ev.now > PatternSet(src, Today)

\* C5: with a provider reporting rise R and set S (R < S) every day: Above
\* with R <= now <= S shows today's R and today's S; Below after today's S
\* shows today's S as set and tomorrow's R as rise.
C5_DailyProvider ==
    \A src \in Sources :
        (ev.pc = "done" /\ RiseThenSetDaily(src))
            => /\ AboveBetween(src)
                    => /\ Shows(ViewOf(src).rise, PatternRise(src, Today))
                       /\ Shows(ViewOf(src).set, PatternSet(src, Today))
               /\ BelowAfterSet(src)
                    => /\ Shows(ViewOf(src).set, PatternSet(src, Today))
                       /\ Shows(ViewOf(src).rise, PatternRise(src, Today + 1))

\* Below after today's set, the internal source consulted its next day.
C5_Witness ==
    /\ ev.pc = "done"
    /\ RiseThenSetDaily("internal")
    /\ BelowAfterSet("internal")
    /\ ev.internal.askedNext
    /\ Shows(ev.internal.rise, PatternRise("internal", Today + 1))

\* C9: when every query of one provider is rejected and the other provider
\* answers, the evaluation is not rejected.
C9_Degrades ==
    \A failing \in Sources : \A surviving \in Sources \ {failing} :
        (/\ ev.pc \in {"done", "rejected"}
         /\ ev.pending = {}
         /\ failing \in ev.rejected /\ failing \notin ev.answered
         /\ surviving \in ev.answered /\ surviving \notin ev.rejected)
            => /\ ev.pc = "done"
               /\ ViewOf(failing) = NoView

(***************************************************************************)
(* Determinism: one source's part of a useMoonToday evaluation, computed   *)
(* twice from the same provider answers, the same `now` and the same       *)
(* observer timezone, on hosts whose own timezones may differ.             *)
(***************************************************************************)
\* What the source's adapter returns for LocalDate d on a host in zone host.
DetResponse(d, host) ==
    Adapter(det.src, RawFor(det.src, det.pat, d, det.tz, det.now), det.tz, host)

\* Lines 189-392 for one source; the other source enters through its
\* today's set only.
DetEvaluate(host) ==
    LET todayLocal == LocalDateOf(det.now, det.tz)
        today == DetResponse(todayLocal, host)
        rolls == IF det.src = "external"
                 THEN RollsOver(today, [set |-> det.otherSet], det.now, det.up)
                 ELSE RollsOver([set |-> det.otherSet], today, det.now, det.up)
        tomorrowLocal == shiftLocalDate(det.now, det.tz, 1)
        activeDate == IF rolls THEN tomorrowLocal ELSE todayLocal
        previousDate == IF activeDate = todayLocal
                        THEN shiftLocalDate(det.now, det.tz, -1) ELSE todayLocal
        nextLocal == IF activeDate = todayLocal THEN tomorrowLocal
                     ELSE shiftLocalDate(det.now, det.tz, 2)
    IN  SourceView(det.src, det.up, det.now, DetResponse(activeDate, host),
                   DetResponse(previousDate, host), DetResponse(nextLocal, host),
                   det.tz)

InitDet ==
    /\ norm = Idle
    /\ sel = Idle
    /\ ev = Idle
    /\ cyc = Idle
    /\ tw = Idle
    /\ rq = Idle
    /\ geo = Idle
    /\ boot = Idle
    /\ \E z \in ObsZones :
         det \in [pc : {"inputs"}, src : Sources, up : BOOLEAN, now : NowsIn(z),
                  tz : {z}, pat : Patterns, otherSet : OtherSets,
                  hostA : HostZones, hostB : HostZones,
                  first : {NoView}, second : {NoView}]

DetFirst ==
    /\ det.pc = "inputs"
    /\ det' = [det EXCEPT !.pc = "first", !.first = DetEvaluate(det.hostA)]
    /\ UNCHANGED <<norm, sel, ev, cyc, tw, rq, geo, boot>>

DetSecond ==
    /\ det.pc = "first"
    /\ det' = [det EXCEPT !.pc = "second", !.second = DetEvaluate(det.hostB)]
    /\ UNCHANGED <<norm, sel, ev, cyc, tw, rq, geo, boot>>

NextDet == DetFirst \/ DetSecond

SpecDet == InitDet /\ [][NextDet]_vars

\* C11: two evaluations from identical provider responses, identical `now`
\* and identical observer timezone return identical results, whatever the
\* timezone of the host that runs them.
C11_Deterministic == det.pc = "second" => det.second = det.first

(***************************************************************************)
(* components/MoonGraph: the cycle position of the moon dot.  Positions    *)
(* are exact fractions n / d with d > 0.                                   *)
(***************************************************************************)
Rat(n, d) == [n |-> n, d |-> d]

RatEq(p, q) == p.n * q.d = q.n * p.d

RatLeq(p, q) == p.n * q.d <= q.n * p.d

RatLess(p, q) == p.n * q.d < q.n * p.d

\* clamp01 left out: the position as computed before line 153.
unclamped(q) == q

\* Math.max(0, Math.min(1, n))
clamp01(q) ==
    IF q.n > q.d THEN Rat(1, 1)
    ELSE IF q.n < 0 THEN Rat(0, 1)
    ELSE q

\* Lines 123-125 with the gap spread over half the cycle instead of a quarter.
GapPositionHalfCycle(nowT, prevSetT, nextRiseT) ==
    LET span == nextRiseT - prevSetT
    IN  IF span > 0 THEN Rat(3 * span + 2 * (nowT - prevSetT), 4 * span)
        ELSE Rat(3, 4)

\* Lines 123-125: 0.75 + pct * 0.25 over the span from prior set to next rise.
GapPosition(nowT, prevSetT, nextRiseT) ==
    LET span == nextRiseT - prevSetT
    IN  IF span > 0 THEN Rat(3 * span + (nowT - prevSetT), 4 * span)
        ELSE Rat(3, 4)

\* Lines 126-137 and 139-150: (now - start) / total with pad = span / 2,
\* written in half-ticks; a missing or unparseable rise or set makes span
\* NaN or skips the branch, and cycleT keeps its default 0.25.
ArcPosition(nowT, riseIso, setIso) ==
    IF riseIso = NoneTs \/ setIso = NoneTs THEN Rat(1, 4)
    ELSE IF ~Parses(riseIso) \/ ~Parses(setIso) THEN Rat(1, 4)
    ELSE LET span == InstantOf(setIso) - InstantOf(riseIso)
             start2 == 2 * InstantOf(riseIso) - span
             end2 == 2 * InstantOf(setIso) + span
             total2 == end2 - start2
         IN  IF span > 0 /\ total2 > 0 THEN Rat(2 * nowT - start2, total2)
             ELSE Rat(1, 4)

\* Lines 107-153
cycleT(nowT, riseIso, setIso, prevSetIso, nextRiseIso) ==
    clamp01(
        IF /\ prevSetIso # NoneTs /\ nextRiseIso # NoneTs
           /\ Parses(prevSetIso) /\ Parses(nextRiseIso)
        THEN IF /\ nowT >= InstantOf(prevSetIso)
                /\ nowT <= InstantOf(nextRiseIso)
             THEN GapPosition(nowT, InstantOf(prevSetIso), InstantOf(nextRiseIso))
             ELSE ArcPosition(nowT, riseIso, setIso)
        ELSE ArcPosition(nowT, riseIso, setIso))

\* The event strings the internal source's view can carry into the graph.
CycInternal ==
    {NoneTs, BadTs} \cup {Iso(d, t, 1) : d \in {Today - 1, Today}, t \in 0 .. (DayLen - 1)}

\* The external source's view matters where the internal field is undefined.
CycExternal == {NoneTs, Iso(Today, Noon, 1)}

\* The fields of one source's view that the graph reads.
CycViews(stamps) == [rise : stamps, set : stamps, prevSet : stamps]

\* nowQ.data.whenISO as an instant
CycNows == ((Today - 1) * DayLen - 1) .. ((Today + 1) * DayLen + 1)

InitCyc ==
    /\ norm = Idle
    /\ sel = Idle
    /\ ev = Idle
    /\ det = Idle
    /\ tw = Idle
    /\ rq = Idle
    /\ geo = Idle
    /\ boot = Idle
    /\ cyc \in [pc : {"ready"}, now : CycNows,
                internal : CycViews(CycInternal),
                external : CycViews(CycExternal),
                dot : {Rat(1, 4)}]

\* Lines 94-105
riseIso == Coalesce(cyc.internal.rise, cyc.external.rise)

setIso == Coalesce(cyc.internal.set, cyc.external.set)

prevSetIso == Coalesce(cyc.internal.prevSet, cyc.external.prevSet)

nextRiseIso == Coalesce(cyc.internal.rise, cyc.external.rise)

\* One render of the graph once both queries are ready.
Render ==
    /\ cyc.pc = "ready"
    /\ cyc' = [cyc EXCEPT !.pc = "rendered",
                          !.dot = cycleT(cyc.now, riseIso, setIso, prevSetIso, nextRiseIso)]
    /\ UNCHANGED <<norm, sel, ev, det, tw, rq, geo, boot>>

NextCyc == Render

SpecCyc == InitCyc /\ [][NextCyc]_vars

(***************************************************************************)
(* Claims about the cycle position                                         *)
(***************************************************************************)
Rendered == cyc.pc = "rendered"

Known(iso) == iso # NoneTs /\ Parses(iso)

\* now lies strictly between the prior set and the next rise
StrictlyInGap ==
    /\ Known(prevSetIso) /\ Known(nextRiseIso)
    /\ InstantOf(prevSetIso) < cyc.now
    /\ cyc.now < InstantOf(nextRiseIso)

\* C12: whenever prior set and next rise are both known and now lies
\* strictly between them, the position is
\* 0.75 + 0.25 * (now - priorSet) / (nextRise - priorSet), which is 0.875
\* exactly halfway through the gap.
C12_GapPosition ==
    (Rendered /\ StrictlyInGap)
        => LET elapsed == cyc.now - InstantOf(prevSetIso)
               gap == InstantOf(nextRiseIso) - InstantOf(prevSetIso)
           IN  /\ 4 * gap * cyc.dot.n = (3 * gap + elapsed) * cyc.dot.d
               /\ 2 * elapsed = gap => RatEq(cyc.dot, Rat(7, 8))

\* A render exactly halfway through a gap, the arc's set being known too.
C12_Witness ==
    /\ Rendered
    /\ StrictlyInGap
    /\ Known(setIso)
    /\ 2 * (cyc.now - InstantOf(prevSetIso))
         = InstantOf(nextRiseIso) - InstantOf(prevSetIso)
    /\ RatEq(cyc.dot, Rat(7, 8))

\* clamp01((now - (rise - pad)) / ((set + pad) - (rise - pad))), pad = (set - rise) / 2
PaddedArc ==
    LET rise == InstantOf(riseIso)
        set == InstantOf(setIso)
    IN  clamp01(Rat(2 * cyc.now - 2 * rise + (set - rise), 4 * (set - rise)))

\* C13: whenever rise and set are known with rise < set and now is not
\* strictly inside the gap, the position is the padded-arc value, so that
\* now = rise gives 0.25, the midpoint 0.5 and now = set 0.75, whether or
\* not a prior set is known.
C13_ArcPosition ==
    (/\ Rendered
     /\ Known(riseIso) /\ Known(setIso)
     /\ InstantOf(riseIso) < InstantOf(setIso)
     /\ ~StrictlyInGap)
        => /\ RatEq(cyc.dot, PaddedArc)
           /\ cyc.now = InstantOf(riseIso) => RatEq(cyc.dot, Rat(1, 4))
           /\ 2 * cyc.now = InstantOf(riseIso) + InstantOf(setIso)
                => RatEq(cyc.dot, Rat(1, 2))
           /\ cyc.now = InstantOf(setIso) => RatEq(cyc.dot, Rat(3, 4))

\* C14: for every combination of present, absent, unparseable or reversed
\* inputs and every now, the position of the dot is a number p, 0 <= p <= 1.
C14_InUnitInterval ==
    Rendered => /\ cyc.dot.d > 0
                /\ 0 <= cyc.dot.n
                /\ cyc.dot.n <= cyc.dot.d

\* A render whose unclamped value is negative (now earlier than rise - pad),
\* next to an unparseable prior set.
C14_Witness ==
    /\ Rendered
    /\ Known(riseIso) /\ Known(setIso)
    /\ InstantOf(riseIso) < InstantOf(setIso)
    /\ prevSetIso = BadTs
    /\ 2 * cyc.now < 3 * InstantOf(riseIso) - InstantOf(setIso)
    /\ cyc.dot = Rat(0, 1)

\* C15: the position is always strictly less than 1, also when now equals
\* the next rise or is later than set + pad.
C15_BelowOne == Rendered => cyc.dot.n < cyc.dot.d

(***************************************************************************)
(* components/TwilightPhaseBar: the weighted position of a time on the     *)
(* bar.  Times are getTime() values in ticks; weights are in hundredths.   *)
(***************************************************************************)
\* PHASE_WEIGHTS[seg.phase] ?? 1
PHASE_WEIGHTS(phase) ==
    CASE phase = "dark" -> 45
      [] phase = "astronomical" -> 160
      [] phase = "nautical" -> 135
      [] phase = "civil" -> 125
      [] phase = "day" -> 55
      [] OTHER -> 100

\* weightedSegments without its filter: every segment is kept, those that
\* do not end after their start with a duration of 0.
unfilteredSegments(segments) ==
    [i \in 1 .. Len(segments) |->
        [phase |-> segments[i].phase,
         segStart |-> segments[i].start,
         segEnd |-> segments[i].end,
         durationMs |-> IF segments[i].end - segments[i].start > 0
                        THEN segments[i].end - segments[i].start ELSE 0,
         weight |-> PHASE_WEIGHTS(segments[i].phase)]]

\* Lines 74-88: each segment with its clamped duration and weight, those
\* of no positive duration filtered out.
weightedSegments(segments) ==
    LET weigh(seg) ==
            [phase |-> seg.phase, segStart |-> seg.start, segEnd |-> seg.end,
             durationMs |-> IF seg.end - seg.start > 0 THEN seg.end - seg.start ELSE 0,
             weight |-> PHASE_WEIGHTS(seg.phase)]
        positive(seg) == seg.durationMs > 0
    IN  SelectSeq([i \in 1 .. Len(segments) |-> weigh(segments[i])], positive)

\* The sum of plain durations, in the unit of the weighted ones.
RECURSIVE totalMs(_)
totalMs(ws) ==
    IF ws = <<>> THEN 0 ELSE Head(ws).durationMs * 100 + totalMs(Tail(ws))

\* Lines 90-93
RECURSIVE totalWeightedMs(_)
totalWeightedMs(ws) ==
    IF ws = <<>> THEN 0
    ELSE Head(ws).durationMs * Head(ws).weight + totalWeightedMs(Tail(ws))

\* The loop of posForTime with `acc` never advanced.
RECURSIVE PosLoopNoAcc(_, _, _, _, _)
PosLoopNoAcc(ws, i, acc, t, total) ==
    IF i > Len(ws) THEN Rat(0, 1)
    ELSE LET seg == ws[i]
         IN  IF t >= seg.segStart /\ t <= seg.segEnd
             THEN LET segSpan == seg.segEnd - seg.segStart
                  IN  Rat((t - seg.segStart) * seg.durationMs * seg.weight,
                          segSpan * total)
             ELSE PosLoopNoAcc(ws, i + 1, acc, t, total)

\* Lines 103-115: the loop of posForTime from segment i on.  The filter
\* leaves segEnd > segStart, so `end - start || 1` is end - start.
RECURSIVE PosLoop(_, _, _, _, _)
PosLoop(ws, i, acc, t, total) ==
    IF i > Len(ws) THEN Rat(0, 1)
    ELSE LET seg == ws[i]
             segSpan == seg.segEnd - seg.segStart
             segWeighted == seg.durationMs * seg.weight
         IN  IF t >= seg.segStart /\ t <= seg.segEnd
             THEN Rat(acc * segSpan + (t - seg.segStart) * segWeighted,
                      segSpan * total)
             ELSE PosLoop(ws, i + 1, acc + segWeighted, t, total)

\* posForTime without its two early returns at the ends of the bar.
posForTimeUnclamped(ws, t) ==
    IF totalWeightedMs(ws) = 0 THEN Rat(0, 1)
    ELSE PosLoop(ws, 1, 0, t, totalWeightedMs(ws))

\* Lines 96-116, for a non-null time
posForTime(ws, t) ==
    IF totalWeightedMs(ws) = 0 THEN Rat(0, 1)
    ELSE IF t <= ws[1].segStart THEN Rat(0, 1)
    ELSE IF t >= ws[Len(ws)].segEnd THEN Rat(1, 1)
    ELSE PosLoop(ws, 1, 0, t, totalWeightedMs(ws))

\* sunEvents.sunriseLocal / sunsetLocal absent, and the null position
NoTime == 0 - 2

NoPos == Rat(0, 0)

\* sunriseLocal ? posForTime(sunriseLocal) : null
MarkerPos(ws, t) == IF t = NoTime THEN NoPos ELSE posForTime(ws, t)

(***************************************************************************)
(* Bounded twilight responses: up to MaxSegs segments, each starting where *)
(* the one before it ends, of durations from -1 (reversed) to MaxDur.      *)
(***************************************************************************)
MaxSegs == 3

MaxDur == DayLen \div 2

\* Two phases of different weight, and a phase PHASE_WEIGHTS does not list.
TwPhases == {"dark", "civil", "golden"}

SegShapes == [phase : TwPhases, dur : (0 - 1) .. MaxDur]

RECURSIVE StartOf(_, _)
StartOf(shapes, i) == IF i = 1 THEN 0 ELSE StartOf(shapes, i - 1) + shapes[i - 1].dur

SegmentsOf(shapes) ==
    [i \in 1 .. Len(shapes) |->
        [phase |-> shapes[i].phase,
         start |-> StartOf(shapes, i),
         end |-> StartOf(shapes, i) + shapes[i].dur]]

TwResponses ==
    {SegmentsOf(shapes) : shapes \in UNION {[1 .. n -> SegShapes] : n \in 1 .. MaxSegs}}

\* Instants from before the first segment to after the longest bar.
TwNows == (0 - 1) .. (MaxSegs * MaxDur + 1)

InitTw ==
    /\ norm = Idle
    /\ sel = Idle
    /\ ev = Idle
    /\ det = Idle
    /\ cyc = Idle
    /\ rq = Idle
    /\ geo = Idle
    /\ boot = Idle
    /\ tw \in [pc : {"data"}, segments : TwResponses, now : TwNows,
               sunriseLocal : {NoTime, 0, 1},
               sunsetLocal : {NoTime, 2 * MaxDur + 1},
               pos : {NoPos}, sunrisePos : {NoPos}, sunsetPos : {NoPos}]

\* Lines 71-126: one render of the bar from the fetched data.
TwRender ==
    /\ tw.pc = "data"
    /\ LET ws == weightedSegments(tw.segments)
       IN  tw' = [tw EXCEPT !.pc = "rendered",
                            !.pos = posForTime(ws, tw.now),
                            !.sunrisePos = MarkerPos(ws, tw.sunriseLocal),
                            !.sunsetPos = MarkerPos(ws, tw.sunsetLocal)]
    /\ UNCHANGED <<norm, sel, ev, det, cyc, rq, geo, boot>>

NextTw == TwRender

SpecTw == InitTw /\ [][NextTw]_vars

(***************************************************************************)
(* Claims about the twilight position                                      *)
(***************************************************************************)
TwRendered == tw.pc = "rendered"

\* The times the bar places a marker at, each with the position it got.
Markers ==
    {m \in {<<tw.now, tw.pos>>, <<tw.sunriseLocal, tw.sunrisePos>>,
            <<tw.sunsetLocal, tw.sunsetPos>>} : m[1] # NoTime}

\* Every segment ends after it starts and starts where the one before ends.
Contiguous(segments) ==
    /\ \A i \in 1 .. Len(segments) : segments[i].start < segments[i].end
    /\ \A i \in 1 .. (Len(segments) - 1) : segments[i].end = segments[i + 1].start

WindowStart(segments) == segments[1].start

WindowEnd(segments) == segments[Len(segments)].end

InWindow(segments, t) == WindowStart(segments) <= t /\ t <= WindowEnd(segments)

\* duration * weight of the segments 1..i that end at or before t, plus
\* (t - start) * weight of the one that contains t
RECURSIVE WeightedUpTo(_, _, _)
WeightedUpTo(segments, i, t) ==
    IF i = 0 THEN 0
    ELSE LET seg == segments[i]
             w == PHASE_WEIGHTS(seg.phase)
             part == IF seg.end <= t THEN (seg.end - seg.start) * w
                     ELSE IF seg.start < t THEN (t - seg.start) * w
                     ELSE 0
         IN  part + WeightedUpTo(segments, i - 1, t)

\* C16: for a contiguous segment sequence and any T inside the window,
\* posForTime(T) is the weighted duration of the segments ending before T
\* plus the weighted part of T's segment, over the total weighted duration.
C16_WeightedPosition ==
    (TwRendered /\ Contiguous(tw.segments))
        => \A m \in Markers :
              InWindow(tw.segments, m[1])
                => RatEq(m[2],
                         Rat(WeightedUpTo(tw.segments, Len(tw.segments), m[1]),
                             WeightedUpTo(tw.segments, Len(tw.segments),
                                          WindowEnd(tw.segments))))

\* now strictly inside the last of MaxSegs contiguous segments, the segment
\* before it of another weight.
C16_Witness ==
    /\ TwRendered
    /\ Contiguous(tw.segments)
    /\ Len(tw.segments) = MaxSegs
    /\ PHASE_WEIGHTS(tw.segments[MaxSegs].phase) # PHASE_WEIGHTS(tw.segments[MaxSegs - 1].phase)
    /\ tw.segments[MaxSegs].start < tw.now
    /\ tw.now < tw.segments[MaxSegs].end
    /\ RatLess(Rat(0, 1), tw.pos) /\ RatLess(tw.pos, Rat(1, 1))

\* C17: for a contiguous sequence (positive durations, positive weights),
\* T1 < T2 inside the window implies posForTime(T1) < posForTime(T2), also
\* across a boundary where the weight changes.
C17_StrictlyIncreasing ==
    (TwRendered /\ Contiguous(tw.segments))
        => \A m1 \in Markers, m2 \in Markers :
              (/\ InWindow(tw.segments, m1[1])
               /\ InWindow(tw.segments, m2[1])
               /\ m1[1] < m2[1])
                => RatLess(m1[2], m2[2])

\* sunrise, now and sunset in three successive segments of changing weight.
C17_Witness ==
    /\ TwRendered
    /\ Contiguous(tw.segments)
    /\ Len(tw.segments) = MaxSegs
    /\ tw.segments[1].phase # tw.segments[2].phase
    /\ tw.sunriseLocal # NoTime /\ tw.sunsetLocal # NoTime
    /\ tw.sunriseLocal < tw.segments[1].end
    /\ tw.segments[1].end < tw.now
    /\ tw.now < tw.sunsetLocal
    /\ InWindow(tw.segments, tw.sunriseLocal) /\ InWindow(tw.segments, tw.sunsetLocal)
    /\ RatLess(tw.sunrisePos, tw.pos) /\ RatLess(tw.pos, tw.sunsetPos)

\* The bar has a window: segments of positive duration, the first of them
\* starting before the last of them ends.
HasWindow(ws) == ws # <<>> /\ ws[1].segStart < ws[Len(ws)].segEnd

\* C18: posForTime(T) = 0 for every T at or before the first segment's
\* start, = 1 for every T at or after the last segment's end, and every
\* returned position lies in [0,1].
C18_ClampsAtEnds ==
    TwRendered
        => LET ws == weightedSegments(tw.segments)
           IN  \A m \in Markers :
                  /\ m[2].d > 0 /\ 0 <= m[2].n /\ m[2].n <= m[2].d
                  /\ HasWindow(ws)
                        => /\ m[1] <= ws[1].segStart => RatEq(m[2], Rat(0, 1))
                           /\ m[1] >= ws[Len(ws)].segEnd => RatEq(m[2], Rat(1, 1))

\* now after the end of the bar and sunrise at its very start, a segment of
\* no duration having been dropped.
C18_Witness ==
    /\ TwRendered
    /\ LET ws == weightedSegments(tw.segments)
       IN  /\ HasWindow(ws)
           /\ Len(ws) < Len(tw.segments)
           /\ tw.now > ws[Len(ws)].segEnd
           /\ tw.pos = Rat(1, 1)
           /\ tw.sunriseLocal = ws[1].segStart
           /\ tw.sunrisePos = Rat(0, 1)

(***************************************************************************)
(* Claims about the queries of an evaluation                               *)
(***************************************************************************)
\* The positions in the log of the queries src has issued for dates on one
\* side of today.
IssuedBefore(src) ==
    {i \in 1 .. Len(ev.log) : ev.log[i].src = src /\ ev.log[i].date < ev.todayLocal}

IssuedAfter(src) ==
    {i \in 1 .. Len(ev.log) : ev.log[i].src = src /\ ev.log[i].date > ev.todayLocal}

\* C19: within one evaluation each source issues at most one query for a
\* date before today and at most one for a date after today, the next-day
\* result being fetched at most once.
C19_OneExtraPerSide ==
    \A src \in Sources :
        /\ Cardinality(IssuedBefore(src)) <= 1
        /\ Cardinality(IssuedAfter(src)) <= 1
        /\ Cardinality({i \in 1 .. Len(ev.log) : ev.log[i] = Query(src, ev.nextLocal)}) <= 1

TodayQueries == {Query(s, ev.todayLocal) : s \in Sources}

\* The queries in flight for a LocalDate other than today.
CrossDayInFlight == {q \in ev.pending : q.date # ev.todayLocal}

CrossDayStarted == \E i \in 1 .. Len(ev.log) : ev.log[i].date # ev.todayLocal

\* C20: the today queries to both sources are started together; no query
\* for another LocalDate is started until both today queries have resolved;
\* at no moment are more than two cross-day queries in flight.
C20_QueryOrdering ==
    /\ ev.pc # "start" => /\ Len(ev.log) >= 2
                          /\ {ev.log[1], ev.log[2]} = TodayQueries
    /\ ev.pc = "start" => ev.log = <<>> /\ ev.pending = {}
    /\ CrossDayStarted => /\ ev.pending \cap TodayQueries = {}
                          /\ ev.pyToday.ok /\ ev.extToday.ok
    /\ Cardinality(CrossDayInFlight) <= 2

\* Both sources' queries for tomorrow in flight after a rollover.
C20_Witness ==
    /\ ev.pc = "secondary"
    /\ EvRolled
    /\ Cardinality(CrossDayInFlight) = 2
    /\ ev.pyToday.ok /\ ev.extToday.ok

(***************************************************************************)
(* The two lunar queries (useLunarNow, useMoonToday) over their refreshes, *)
(* and what MoonNowCard and MoonAltitudeGraph put on screen from them.     *)
(* A query keeps the data of its last successful fetch; a failed fetch     *)
(* sets its error and leaves the data.  Data are numbered by the fetch     *)
(* that produced them, 0 standing for undefined.                           *)
(***************************************************************************)
MaxFetches == 3

Hooks == {"nowQ", "todayQ"}

MountedQuery == [data |-> 0, error |-> FALSE, fetching |-> TRUE, fetches |-> 1]

isLoading(q) == q.fetching /\ q.data = 0

\* MoonCardNow.tsx lines 54-68
MoonNowCard(q) ==
    IF \/ isLoading(q["nowQ"]) \/ isLoading(q["todayQ"])
       \/ q["nowQ"].data = 0 \/ q["todayQ"].data = 0
    THEN [view |-> "loading", now |-> 0, today |-> 0]
    ELSE IF q["nowQ"].error \/ q["todayQ"].error
    THEN [view |-> "failed", now |-> 0, today |-> 0]
    ELSE [view |-> "data", now |-> q["nowQ"].data, today |-> q["todayQ"].data]

\* MoonGraph.tsx lines 80-89
MoonAltitudeGraph(q) ==
    LET ready == /\ q["nowQ"].data # 0 /\ q["todayQ"].data # 0
                 /\ ~isLoading(q["nowQ"]) /\ ~isLoading(q["todayQ"])
                 /\ ~q["nowQ"].error /\ ~q["todayQ"].error
    IN  IF ready THEN [view |-> "data", now |-> q["nowQ"].data, today |-> q["todayQ"].data]
        ELSE [view |-> "null", now |-> 0, today |-> 0]

\* The components re-render on every change of a query.
Screen(q) == [q |-> q, card |-> MoonNowCard(q), graph |-> MoonAltitudeGraph(q)]

InitRq ==
    /\ norm = Idle
    /\ sel = Idle
    /\ ev = Idle
    /\ det = Idle
    /\ cyc = Idle
    /\ tw = Idle
    /\ geo = Idle
    /\ boot = Idle
    /\ rq = Screen([h \in Hooks |-> MountedQuery])

\* queryFn resolves
FetchSucceeds(h) ==
    /\ rq.q[h].fetching
    /\ rq' = Screen([rq.q EXCEPT ![h] = [@ EXCEPT !.data = rq.q[h].fetches,
                                                  !.error = FALSE,
                                                  !.fetching = FALSE]])
    /\ UNCHANGED <<norm, sel, ev, det, cyc, tw, geo, boot>>

\* queryFn rejects (retries exhausted): the error is set, the data stay.
FetchFails(h) ==
    /\ rq.q[h].fetching
    /\ rq' = Screen([rq.q EXCEPT ![h] = [@ EXCEPT !.error = TRUE, !.fetching = FALSE]])
    /\ UNCHANGED <<norm, sel, ev, det, cyc, tw, geo, boot>>

\* The next refresh (refetchInterval, or a stale query refetched): it is
\* scheduled whatever the outcome of the fetch before it.
Refetch(h) ==
    /\ ~rq.q[h].fetching
    /\ rq.q[h].fetches < MaxFetches
    /\ rq' = Screen([rq.q EXCEPT ![h] =
                        [@ EXCEPT !.fetching = TRUE,
                                  !.fetches = @ + 1,
                                  !.error = rq.q[h].data # 0 /\ @]])
    /\ UNCHANGED <<norm, sel, ev, det, cyc, tw, geo, boot>>

NextRq ==
    \/ \E h \in Hooks : FetchSucceeds(h)
    \/ \E h \in Hooks : FetchFails(h)
    \/ \E h \in Hooks : Refetch(h)

SpecRq == InitRq /\ [][NextRq]_vars

\* C21: once both queries have succeeded, the card and the graph show the
\* data of the last successful fetches, also after a later refresh has
\* failed; and a query whose last fetch failed can be refetched.
C21_StaleWhileFailing ==
    (rq.q["nowQ"].data # 0 /\ rq.q["todayQ"].data # 0)
        => /\ rq.card.view = "data" /\ rq.graph.view = "data"
           /\ rq.card.now = rq.q["nowQ"].data /\ rq.card.today = rq.q["todayQ"].data
           /\ rq.graph.now = rq.q["nowQ"].data /\ rq.graph.today = rq.q["todayQ"].data

(***************************************************************************)
(* One source's selection with the altitude reading made explicit:         *)
(* getMoonNow returns a positive altitude, a non-positive one or NaN, or   *)
(* throws.  The selection itself is that of SelEvaluate.                   *)
(***************************************************************************)
Altitudes == {"positive", "nonpositive", "NaN", "throws"}

\* scNow.altDeg > 0, which is false for NaN
moonIsUp(altitude) == altitude = "positive"

\* Provider answers with well-formed timestamps only.
PlainEvents(d) ==
    {Events(r, s, NoneTs) : r \in RawTimes(d) \ {BadTs}, s \in RawTimes(d) \ {BadTs}}

InitAlt ==
    /\ norm = Idle
    /\ ev = Idle
    /\ det = Idle
    /\ cyc = Idle
    /\ tw = Idle
    /\ rq = Idle
    /\ geo = Idle
    /\ boot = Idle
    /\ \E src \in Sources, altitude \in Altitudes, n \in NowInstants, other \in OtherSets :
         \E rawToday \in PlainEvents(Today) :
            LET up == moonIsUp(altitude)
                today == Adapter(src, rawToday, FixedZone, FixedZone)
                rolled == IF src = "external"
                          THEN RollsOver(today, [set |-> other], n, up)
                          ELSE RollsOver([set |-> other], today, n, up)
                otherDay == IF rolled THEN Today + 1 ELSE Today - 1
                nextDay == IF rolled THEN Today + 2 ELSE Today + 1
            IN  \E rawOther \in PlainEvents(otherDay), rawNext \in PlainEvents(nextDay) :
                   sel = [pc |-> "inputs", src |-> src, up |-> up, now |-> n,
                          otherSet |-> other, rawToday |-> rawToday,
                          rawOther |-> rawOther, rawNext |-> rawNext,
                          out |-> NoView, alt |-> altitude]

\* Line 205 returned: the evaluation goes on with moonIsUp.
AltEvaluate ==
    /\ sel.alt # "throws"
    /\ SelEvaluate

\* Line 205 threw: nothing catches it, queryFn rejects.
AltReject ==
    /\ sel.pc = "inputs"
    /\ sel.alt = "throws"
    /\ sel' = [sel EXCEPT !.pc = "rejected"]
    /\ UNCHANGED <<norm, ev, det, cyc, tw, rq, geo, boot>>

NextAlt == AltEvaluate \/ AltReject

SpecAlt == InitAlt /\ [][NextAlt]_vars

\* C22: when the altitude cannot be determined (the computation throws or
\* yields NaN), the evaluation completes and the displayed rise and set are
\* today's, exactly as the provider gave them.
C22_AmbiguousAltitude ==
    (sel.pc # "inputs" /\ sel.alt \in {"NaN", "throws"})
        => /\ sel.pc = "done"
           /\ sel.out.rise = sel.rawToday.rise
           /\ sel.out.set = sel.rawToday.set

(***************************************************************************)
(* Claims about malformed provider data and about the composition of       *)
(* adapter and selection                                                   *)
(***************************************************************************)
HasBad(raw) == BadTs \in {raw.rise, raw.set, raw.high}

\* The fields of the source's part of the result that show a timestamp.
DisplayedFields ==
    {sel.out.rise, sel.out.set, sel.out.highMoon, sel.out.prevRise, sel.out.prevSet}

\* C23: when a timestamp field of today's event set is unparseable (the
\* other event sets being well-formed), the evaluation does not fail and
\* the unparseable string is not among the fields it returns.
C23_MalformedField ==
    (/\ sel.pc # "inputs"
     /\ HasBad(sel.rawToday)
     /\ ~HasBad(sel.rawOther)
     /\ ~HasBad(sel.rawNext))
        => /\ sel.pc = "done"
           /\ BadTs \notin DisplayedFields

(***************************************************************************)
(* Claims about dropped twilight segments                                  *)
(***************************************************************************)
EndsAfterStart(seg) == seg.end > seg.start

\* The response with the segments removed that do not end after their start.
WithoutDropped(segments) == SelectSeq(segments, EndsAfterStart)

\* duration * weight summed over the segments 1..i of a sequence
RECURSIVE WeightOf(_, _)
WeightOf(segments, i) ==
    IF i = 0 THEN 0
    ELSE (segments[i].end - segments[i].start) * PHASE_WEIGHTS(segments[i].phase)
            + WeightOf(segments, i - 1)

\* C24: a segment whose end is not after its start contributes nothing to
\* the total weighted duration, is never the segment containing T, and the
\* position of every T is the position over the sequence without it.
C24_DroppedSegments ==
    TwRendered
        => LET kept == WithoutDropped(tw.segments)
               ws == weightedSegments(tw.segments)
           IN  /\ totalWeightedMs(ws) = WeightOf(kept, Len(kept))
               /\ \A i \in 1 .. Len(ws) : ws[i].segEnd > ws[i].segStart
               /\ \A m \in Markers :
                     m[2] = posForTime(weightedSegments(kept), m[1])

\* A reversed first segment and a segment of no duration dropped around a
\* kept one, now strictly inside what is left of the bar.
C24_Witness ==
    /\ TwRendered
    /\ Len(tw.segments) = MaxSegs
    /\ tw.segments[1].end < tw.segments[1].start
    /\ Len(WithoutDropped(tw.segments)) = 1
    /\ RatLess(Rat(0, 1), tw.pos) /\ RatLess(tw.pos, Rat(1, 1))

(***************************************************************************)
(* Claims about the dates of an evaluation                                 *)
(***************************************************************************)
\* The rollover decision has been taken: the second round has been issued.
Decided == Len(ev.log) >= 4

\* The set the decision looks at, and whether it lies at or before now.
SetForSwitch == IF ev.extToday.set # NoneTs THEN ev.extToday.set ELSE ev.pyToday.set

SwitchSetPassed == SetForSwitch.k = "iso" /\ InstantOf(SetForSwitch) <= ev.now

\* The queries issued after the two rounds: the lazy next-day queries.
LazyQueries == {ev.log[i] : i \in 5 .. Len(ev.log)}

\* C25: the active LocalDate is tomorrow exactly when the set used for the
\* rollover decision is <= now and the moon is not above the horizon, and
\* today otherwise; the previous date is the LocalDate just before the
\* active one and the lazily queried date the LocalDate just after it.
C25_RolloverRule ==
    Decided
        => /\ ev.todayLocal = Today
           /\ ev.activeDate = (IF SwitchSetPassed /\ ~ev.moonIsUp THEN Today + 1 ELSE Today)
           /\ ev.previousDate = ev.activeDate - 1
           /\ ev.nextLocal = ev.activeDate + 1
           /\ \A q \in LazyQueries : q.date = ev.activeDate + 1

\* A rolled-over evaluation whose next date lies beyond a change of the
\* observer's offset, and which queried that date.
C25_Witness ==
    /\ ev.pc = "done"
    /\ ev.tz = FallBack
    /\ ev.activeDate = Today + 1
    /\ LazyQueries # {}

\* C26: within one evaluation no (source, LocalDate) pair is queried more
\* than once: what is held for today is reused, and the next day's result
\* is fetched at most once per source.
C26_NoRepeatedQuery ==
    \A i, j \in 1 .. Len(ev.log) : ev.log[i] = ev.log[j] => i = j

\* A rolled-over evaluation (today's results reused as the previous day's)
\* in which both sources fetched their next day.
C26_Witness ==
    /\ ev.pc = "done"
    /\ ev.previousDate = ev.todayLocal
    /\ Len(ev.log) = 6
    /\ ev.log[5] = Query("internal", ev.nextLocal)
    /\ ev.log[6] = Query("external", ev.nextLocal)

\* C27: when the moon is Above and the set the provider reports for today
\* is an instant >= now, the set displayed for that source is that instant,
\* also when today's reported rise is later in the day than that set.
C27_UpcomingSetShown ==
    (/\ sel.pc = "done"
     /\ sel.up
     /\ sel.rawToday.set.k = "iso"
     /\ InstantOf(sel.rawToday.set) >= sel.now)
        => /\ sel.out.set.k = "iso"
           /\ InstantOf(sel.out.set) = InstantOf(sel.rawToday.set)

(***************************************************************************)
(* lib/location: getBrowserLocation.  One call, the callbacks the browser  *)
(* may deliver for it and its hard timer.  Time is counted in seconds.     *)
(***************************************************************************)
\* DEFAULT_OPTIONS.timeout and the `?? 6000` of hardTimeoutMs
DefaultTimeout == 6

\* the `+ 1000` of hardTimeoutMs
HardMargin == 1

\* options.timeout === undefined
NoTimeout == 0 - 1

Timeouts == {NoTimeout, 0, 1, DefaultTimeout}

hardTimeoutMs(timeout) == (IF timeout = NoTimeout THEN DefaultTimeout ELSE timeout) + HardMargin

\* Callbacks the browser delivers for one call, late and repeated ones
\* included.
MaxCallbacks == 2

MaxClock == DefaultTimeout + HardMargin + 1

Positions == {[latitude |-> la, longitude |-> lo] : la \in {10, 20}, lo \in {30}}

PositionErrors == {"denied", "unavailable", "timeout"}

NoResult == [ok |-> FALSE, error |-> "none"]

GeoOk(pos) == [ok |-> TRUE, location |-> pos]

GeoError(err) == [ok |-> FALSE, error |-> err]

\* resolve(value) of the promise: only the first call fulfils it.
resolve(g, value) ==
    [g EXCEPT !.resolves = @ + 1,
              !.promise = "fulfilled",
              !.result = IF g.promise = "pending" THEN value ELSE @]

\* settle without its `if (settled) return`
settleUnguarded(g, value) == resolve([g EXCEPT !.settled = TRUE], value)

\* Lines 29-33
settle(g, value) ==
    IF g.settled THEN g ELSE resolve([g EXCEPT !.settled = TRUE], value)

InitGeo ==
    /\ norm = Idle
    /\ sel = Idle
    /\ ev = Idle
    /\ det = Idle
    /\ cyc = Idle
    /\ tw = Idle
    /\ rq = Idle
    /\ boot = Idle
    /\ \E has \in BOOLEAN, timeout \in Timeouts :
          geo = [pc |-> "call", hasGeolocation |-> has, timeout |-> timeout,
                 clock |-> 0, settled |-> FALSE, hardTimer |-> FALSE,
                 callbacks |-> 0, resolves |-> 0, promise |-> "none",
                 result |-> NoResult]

\* Lines 24-26: no geolocation, an already fulfilled promise.
GeoUnavailable ==
    /\ geo.pc = "call"
    /\ ~geo.hasGeolocation
    /\ geo' = [geo EXCEPT !.pc = "returned",
                          !.resolves = 1,
                          !.promise = "fulfilled",
                          !.result = GeoError("no-geolocation")]
    /\ UNCHANGED <<norm, sel, ev, det, cyc, tw, rq, boot>>

\* Lines 28-40 and the getCurrentPosition call: the executor arms the hard
\* timer and registers the callbacks.
GeoRequest ==
    /\ geo.pc = "call"
    /\ geo.hasGeolocation
    /\ geo' = [geo EXCEPT !.pc = "returned",
                          !.promise = "pending",
                          !.hardTimer = TRUE]
    /\ UNCHANGED <<norm, sel, ev, det, cyc, tw, rq, boot>>

\* Lines 43-53: the success callback.
OnSuccess(pos) ==
    /\ geo.pc = "returned"
    /\ geo.hasGeolocation
    /\ geo.callbacks < MaxCallbacks
    /\ geo' = settle([geo EXCEPT !.hardTimer = FALSE, !.callbacks = @ + 1], GeoOk(pos))
    /\ UNCHANGED <<norm, sel, ev, det, cyc, tw, rq, boot>>

\* Lines 55-58: the error callback.
OnError(err) ==
    /\ geo.pc = "returned"
    /\ geo.hasGeolocation
    /\ geo.callbacks < MaxCallbacks
    /\ geo' = settle([geo EXCEPT !.hardTimer = FALSE, !.callbacks = @ + 1], GeoError(err))
    /\ UNCHANGED <<norm, sel, ev, det, cyc, tw, rq, boot>>

\* Lines 38-40: the hard timer, if not cleared, fires when its delay is up.
HardTimerFires ==
    /\ geo.hardTimer
    /\ geo.clock >= hardTimeoutMs(geo.timeout)
    /\ geo' = settle([geo EXCEPT !.hardTimer = FALSE], GeoError("geolocation-hard-timeout"))
    /\ UNCHANGED <<norm, sel, ev, det, cyc, tw, rq, boot>>

\* A second passes; a timer that is due fires before the next one does.
GeoTick ==
    /\ geo.pc = "returned"
    /\ geo.clock < MaxClock
    /\ ~(geo.hardTimer /\ geo.clock >= hardTimeoutMs(geo.timeout))
    /\ geo' = [geo EXCEPT !.clock = @ + 1]
    /\ UNCHANGED <<norm, sel, ev, det, cyc, tw, rq, boot>>

NextGeo ==
    \/ GeoUnavailable
    \/ GeoRequest
    \/ \E pos \in Positions : OnSuccess(pos)
    \/ \E err \in PositionErrors : OnError(err)
    \/ HardTimerFires
    \/ GeoTick

SpecGeo == InitGeo /\ [][NextGeo]_vars

\* The call runs to its return, time passes and a due timer fires; the
\* browser owes no callback.
FairSpecGeo ==
    /\ SpecGeo
    /\ WF_vars(GeoUnavailable \/ GeoRequest)
    /\ WF_vars(GeoTick)
    /\ WF_vars(HardTimerFires)

(***************************************************************************)
(* Claims about getBrowserLocation                                         *)
(***************************************************************************)
GeoSettled == geo.promise = "fulfilled"

\* At most one resolve, no rejection, and settled once the hard timeout
\* has gone by.
SettlesOnceInTime ==
    /\ geo.resolves <= 1
    /\ geo.promise # "rejected"
    /\ GeoSettled <=> geo.resolves = 1
    /\ geo.clock > hardTimeoutMs(geo.timeout) => GeoSettled

\* What the promise settled with stays what it is.
ResultKept == GeoSettled => (GeoSettled' /\ geo'.result = geo.result)

\* C28: the promise of getBrowserLocation settles exactly once and never
\* rejects under every interleaving of success callback, error callback
\* and hard timer; it eventually settles, by the hard timeout at the
\* latest; a callback after the first settlement does not change the result.
C28_SettlesExactlyOnce ==
    /\ []SettlesOnceInTime
    /\ [][ResultKept]_vars
    /\ <>GeoSettled

\* The hard timer settled the promise and two callbacks arrived after it.
C28_Witness ==
    /\ geo.pc = "returned"
    /\ geo.result = GeoError("geolocation-hard-timeout")
    /\ geo.callbacks = MaxCallbacks
    /\ geo.resolves = 1

(***************************************************************************)
(* app/page: the location bootstrap of Page.  The effect runs once per     *)
(* mount: cached location, then geolocation, then the reverse-geocoded     *)
(* label.  localStorage is a store that may hold no entry, an entry of the *)
(* wrong shape or a CachedLocation, and that may refuse a write.           *)
(***************************************************************************)
NoTz == "undefined"

CachedLocation(label, pos, tz, source) ==
    [label |-> label, latitude |-> pos.latitude, longitude |-> pos.longitude,
     tz |-> tz, source |-> source]

FALLBACK_LOC ==
    CachedLocation("Default location", [latitude |-> 40, longitude |-> 30],
                   "America/New_York", "fallback")

tzClient == "Europe/Oslo"

NoEntry == [kind |-> "none"]

WrongShape == [kind |-> "garbage"]

Entry(loc) == [kind |-> "entry", value |-> loc]

\* Lines 27-46
readCachedLocation(store) ==
    IF store.kind = "entry" THEN store ELSE NoEntry

\* Lines 48-54: the write, or the ignored failure of the write.
writeCachedLocation(store, loc, accepted) ==
    IF accepted THEN Entry(loc) ELSE store

\* What earlier runs may have left in the store.
StoredLabels == {"Current location", "Norfolk, Virginia"}

InitialStores ==
    {NoEntry, WrongShape}
        \cup {Entry(CachedLocation(l, p, tz, "geolocation")) :
                l \in StoredLabels, p \in Positions, tz \in {NoTz, "America/New_York"}}

GeoResults == {GeoOk(p) : p \in Positions} \cup {GeoError(e) : e \in PositionErrors}

\* reverseGeocode: a result with a label, or null.
NoLabel == ""

GeocodeLabels == {NoLabel, "Norfolk, Virginia", "Oslo, Norway"}

Coordinates(loc) == <<loc.latitude, loc.longitude>>

InitBoot ==
    /\ norm = Idle
    /\ sel = Idle
    /\ ev = Idle
    /\ det = Idle
    /\ cyc = Idle
    /\ tw = Idle
    /\ rq = Idle
    /\ geo = Idle
    /\ \E store \in InitialStores :
          boot = [pc |-> "mount", didInit |-> FALSE, loc |-> FALLBACK_LOC,
                  tz |-> FALLBACK_LOC.tz, store |-> store,
                  res |-> NoResult, before |-> [loc |-> FALLBACK_LOC, store |-> store],
                  geocoded |-> <<>>, labelOn |-> <<>>, writes |-> 0]

\* Lines 72-94: the effect up to the call of getBrowserLocation.
Mount ==
    /\ boot.pc = "mount"
    /\ ~boot.didInit
    /\ LET cached == readCachedLocation(boot.store)
           cachedLoc == [cached.value EXCEPT
                            !.source = "cache",
                            !.tz = IF @ = NoTz THEN tzClient ELSE @]
       IN  boot' = [boot EXCEPT
                        !.pc = "locating",
                        !.didInit = TRUE,
                        !.loc = IF cached.kind = "entry" THEN cachedLoc ELSE @,
                        !.tz = IF cached.kind = "entry" THEN cachedLoc.tz
                               ELSE FALLBACK_LOC.tz]
    /\ UNCHANGED <<norm, sel, ev, det, cyc, tw, rq, geo>>

\* The same with a failed geolocation falling back to the default place.
LocateSettlesReset(res, accepted) ==
    /\ boot.pc = "locating"
    /\ boot' = [boot EXCEPT
                    !.pc = IF res.ok THEN "geocoding" ELSE "done",
                    !.res = res,
                    !.before = [loc |-> boot.loc, store |-> boot.store],
                    !.loc = IF res.ok
                            THEN CachedLocation("Current location", res.location,
                                                tzClient, "geolocation")
                            ELSE FALLBACK_LOC,
                    !.tz = IF res.ok THEN tzClient ELSE @,
                    !.store = IF res.ok
                              THEN writeCachedLocation(@,
                                       CachedLocation("Current location", res.location,
                                                      tzClient, "geolocation"), accepted)
                              ELSE @,
                    !.geocoded = IF res.ok THEN Coordinates(res.location) ELSE @,
                    !.writes = IF res.ok /\ accepted THEN @ + 1 ELSE @]
    /\ UNCHANGED <<norm, sel, ev, det, cyc, tw, rq, geo>>

\* Lines 96-120: getBrowserLocation settles; a failure keeps cache or
\* fallback, a position is displayed and written to the cache.
LocateSettles(res, accepted) ==
    /\ boot.pc = "locating"
    /\ LET next == IF res.ok
                   THEN CachedLocation("Current location", res.location,
                                       tzClient, "geolocation")
                   ELSE boot.loc
       IN  boot' = [boot EXCEPT
                        !.pc = IF res.ok THEN "geocoding" ELSE "done",
                        !.res = res,
                        !.before = [loc |-> boot.loc, store |-> boot.store],
                        !.loc = next,
                        !.tz = IF res.ok THEN tzClient ELSE @,
                        !.store = IF res.ok THEN writeCachedLocation(@, next, accepted)
                                  ELSE @,
                        !.geocoded = IF res.ok THEN Coordinates(res.location) ELSE @,
                        !.writes = IF res.ok /\ accepted THEN @ + 1 ELSE @]
    /\ UNCHANGED <<norm, sel, ev, det, cyc, tw, rq, geo>>

\* Lines 122-137: reverseGeocode settles; its label goes to the displayed
\* location and to the cache if the displayed coordinates are the geocoded
\* ones.
GeocodeSettles(label, accepted) ==
    /\ boot.pc = "geocoding"
    /\ LET prev == boot.loc
           applies == label # NoLabel /\ Coordinates(prev) = boot.geocoded
           updated == [prev EXCEPT !.label = label]
       IN  boot' = [boot EXCEPT
                        !.pc = "done",
                        !.loc = IF applies THEN updated ELSE prev,
                        !.store = IF applies
                                  THEN writeCachedLocation(@, updated, accepted)
                                  ELSE @,
                        !.labelOn = IF applies THEN Coordinates(prev) ELSE @,
                        !.writes = IF applies /\ accepted THEN @ + 1 ELSE @]
    /\ UNCHANGED <<norm, sel, ev, det, cyc, tw, rq, geo>>

NextBoot ==
    \/ Mount
    \/ \E res \in GeoResults, accepted \in BOOLEAN : LocateSettles(res, accepted)
    \/ \E label \in GeocodeLabels, accepted \in BOOLEAN : GeocodeSettles(label, accepted)

SpecBoot == InitBoot /\ [][NextBoot]_vars

(***************************************************************************)
(* Claims about the location bootstrap                                     *)
(***************************************************************************)
BootDone == boot.pc = "done"

\* The label was applied, and then on the coordinates that were geocoded.
LabelApplied == boot.labelOn # <<>>

LabelOnlyOnGeocoded ==
    /\ LabelApplied => boot.labelOn = boot.geocoded
    /\ (BootDone /\ boot.res.ok /\ ~LabelApplied) => boot.loc.label = "Current location"

CacheMatchesDisplay ==
    /\ boot.store.kind = "entry"
    /\ Coordinates(boot.store.value) = Coordinates(boot.loc)

FailureChangesNothing ==
    (BootDone /\ ~boot.res.ok)
        => /\ boot.loc = boot.before.loc
           /\ boot.store = boot.before.store

\* C29 as stated: the label is applied and cached only on the geocoded
\* coordinates; after a run the cached entry's coordinates are the
\* displayed ones whenever the source is geolocation; a failed geolocation
\* leaves display and cache unchanged.
C29_Bootstrap ==
    /\ LabelOnlyOnGeocoded
    /\ (BootDone /\ boot.loc.source = "geolocation") => CacheMatchesDisplay
    /\ FailureChangesNothing

\* C29 as amended: the same, the cache matching the display whenever the
\* source is geolocation and the store accepted a write of the run.
C29_BootstrapAccepted ==
    /\ LabelOnlyOnGeocoded
    /\ (BootDone /\ boot.loc.source = "geolocation" /\ boot.writes > 0)
            => CacheMatchesDisplay
    /\ FailureChangesNothing

\* A run over a cached place that located another position, was refused
\* the first write and had the label accepted.
C29_Witness ==
    /\ BootDone
    /\ boot.before.loc.source = "cache"
    /\ Coordinates(boot.before.loc) # Coordinates(boot.loc)
    /\ boot.loc.label = "Oslo, Norway"
    /\ boot.writes = 1
    /\ boot.store = Entry(boot.loc)

(***************************************************************************)
(* hooks/useTwilight with TwilightPhaseBar: the response carries the       *)
(* currentPhase the provider computed for the instant the query function   *)
(* read; the bar is rendered from it at the instant of each render, until  *)
(* the next refresh replaces the data.                                     *)
(***************************************************************************)
\* Renders happen up to this long after the query function ran (the
\* refetchInterval, in units of half of it).
MaxAge == 2

\* The phases of the segments that contain instant t.
PhasesAt(segments, t) ==
    {segments[i].phase : i \in {j \in 1 .. Len(segments) :
                                    /\ segments[j].start <= t
                                    /\ t <= segments[j].end}}

\* currentPhase as computed for datetimeIso: the phase of a segment that
\* contains it, any phase when none does.
CurrentPhaseFor(segments, datetimeIso) ==
    IF PhasesAt(segments, datetimeIso) = {} THEN TwPhases
    ELSE PhasesAt(segments, datetimeIso)

\* Lines 16-19 of the hook: the query function reads the clock and asks.
InitPhase ==
    /\ norm = Idle
    /\ sel = Idle
    /\ ev = Idle
    /\ det = Idle
    /\ cyc = Idle
    /\ rq = Idle
    /\ geo = Idle
    /\ boot = Idle
    /\ \E segments \in TwResponses, isoUtc \in TwNows :
          tw = [pc |-> "fetching", segments |-> segments, isoUtc |-> isoUtc,
                now |-> isoUtc, currentPhase |-> "", sunriseLocal |-> NoTime,
                sunsetLocal |-> NoTime, pos |-> NoPos, sunrisePos |-> NoPos,
                sunsetPos |-> NoPos]

\* The response arrives.
TwFetched(phase) ==
    /\ tw.pc = "fetching"
    /\ phase \in CurrentPhaseFor(tw.segments, tw.isoUtc)
    /\ tw' = [tw EXCEPT !.pc = "data", !.currentPhase = phase]
    /\ UNCHANGED <<norm, sel, ev, det, cyc, rq, geo, boot>>

\* Time passes between the query and a render, and between renders.
TwAge ==
    /\ tw.pc \in {"fetching", "data", "rendered"}
    /\ tw.now - tw.isoUtc < MaxAge
    /\ tw' = [tw EXCEPT !.now = @ + 1,
                        !.pc = IF @ = "rendered" THEN "data" ELSE @]
    /\ UNCHANGED <<norm, sel, ev, det, cyc, rq, geo, boot>>

NextPhase ==
    \/ \E phase \in TwPhases : TwFetched(phase)
    \/ TwAge
    \/ TwRender

SpecPhase == InitPhase /\ [][NextPhase]_vars

(***************************************************************************)
(* Claims about the twilight bar's label                                   *)
(***************************************************************************)
\* The now-marker stands inside the bar.
NowInBar ==
    LET ws == weightedSegments(tw.segments)
    IN  /\ Len(ws) > 0
        /\ ws[1].segStart <= tw.now
        /\ tw.now <= ws[Len(ws)].segEnd

\* C30: at every render the phase shown as current is the phase of the
\* segment containing the instant of the now-marker, also when the data
\* has aged up to one refresh interval.
C30_LabelMatchesMarker ==
    (tw.pc = "rendered" /\ NowInBar)
        => tw.currentPhase \in PhasesAt(tw.segments, tw.now)

====
